---- MODULE Spec2Model ----
(***************************************************************************)
(* Model of the aqua_db storage engine: the buffer pool manager            *)
(* (src/src/storage/buffer_pool_manager.rs) with its replacer,             *)
(* descriptors, buffer pool, page table and disk manager.                  *)
(*                                                                         *)
(* Every public operation of the manager is one atomic action: the         *)
(* front-end drives the manager from a single thread (src/src/main.rs).    *)
(* The order of the effects inside one load is the io field of Load.       *)
(***************************************************************************)
EXTENDS Integers, Sequences, FiniteSets, TLC

\* ------------------------------------------------------------------ bounds
\* largest pool_size handed to BufferPoolManager::new
MaxPoolSize == 2
\* each table file is allowed to grow to this many pages
MaxPages == 2
\* number of tuples a caller puts into one page (the caller's can_add_tuple)
TuplesPerPage == 1
\* largest pin_count a cache hit is allowed to reach
MaxPin == 2
\* how far below zero a release build's pin_count is followed
MaxWrap == 1
\* tuples are drawn from 1..MaxValue
MaxValue == 1
\* number of unpin calls a replacer driven on its own is followed for
MaxCalls == 4
\* number of rows the executor is asked to insert
MaxInserts == 3
\* number of disk writes that fail in one run of the manager
MaxFaults == 1

\* ------------------------------------------------------------- input sets
\* the table names a catalog is built from
Tables == {"t1", "t2"}
Values == 1..MaxValue
\* page ids a caller may ask for: the pages a file can grow to (a file that has
\* not grown to MaxPages is asked for pages it does not have)
PageIds == 0..(MaxPages - 1)
Builds == {"debug", "release"}

NoTable == "none"
NoFrame == -1

VARIABLES
    pool_size,    \* the size the manager was constructed with
    tables,       \* the names of the tables of the catalog
    build,        \* overflow checks on (debug) or off (release)
    panicked,     \* the process panicked
    replacer,     \* LruReplacer.cache: descriptor ids, least recently used first
    descriptors,  \* Descriptors.items: id -> [id, dirty, buffer_pool_id, pin_count]
    buffer_pool,  \* BufferPool.cache: id -> [id, page]
    page_table,   \* HashTable.buckets: sequence of buckets, each a set of <<key, value>>
    disk,         \* the files base_path/<table name>: see Files
    frame_table,  \* history: table_name of the load that filled the frame
    handed,       \* history: the frames whose current Arc a caller was handed
    tracked,      \* history: the page last unpinned while dirty, and its content
    last,         \* history: the last call of the manager and how it ended
    hist          \* history: what the calls so far were given and what they returned

vars == <<pool_size, tables, build, panicked, replacer, descriptors, buffer_pool,
          page_table, disk, frame_table, handed, tracked, last, hist>>

Frames == 0..(pool_size - 1)

\* ------------------------------------------------------------------- page
\* Page::default
PageDefault == [id |-> 0, header |-> [tuple_count |-> 0], body |-> <<>>]

\* Page::add_tuple
PageAddTuple(page, tuple) ==
    [page EXCEPT !.header.tuple_count = @ + 1,
                 !.body = Append(@, tuple)]

\* Page::raw: header, then the tuples; the page id is not part of the image
PageRaw(page) ==
    [tuple_count |-> page.header.tuple_count, tuples |-> page.body]

\* Page::fill on a page whose id was set by the reader
PageFill(page_id, raw) ==
    [id |-> page_id,
     header |-> [tuple_count |-> raw.tuple_count],
     body |-> SubSeq(raw.tuples, 1, raw.tuple_count)]

\* the image of PAGE_SIZE zero bytes (a hole left by a write past the end)
ZeroImage == [tuple_count |-> 0, tuples |-> <<>>]

\* ----------------------------------------------------------- disk manager
\* the files of the tables: under a table's name the full pages of its file,
\* which is what read_exact, allocate_page and last_page_id see of it; under
\* "tails" the bytes behind the last full page of each file, kept as the page
\* they become when a later write past them fills the rest with zeros
Files(pages) ==
    [name \in Tables \cup {"tails"} |->
        IF name = "tails" THEN [t \in Tables |-> ZeroImage] ELSE pages[name]]

\* DiskManager::write: seek to page.id * PAGE_SIZE and write the image; a write
\* past the end makes pages of the bytes behind the last full page and of the
\* hole, a write at or past the end leaves nothing behind the last full page
DiskWrite(files, page, table_name) ==
    LET file == files[table_name]
        n    == page.id + 1
        grown == IF Len(file) >= n THEN file
                 ELSE file \o [i \in 1..(n - Len(file)) |->
                                  IF i = 1 THEN files["tails"][table_name]
                                  ELSE ZeroImage]
    IN  [files EXCEPT ![table_name] = [grown EXCEPT ![n] = PageRaw(page)],
                      !["tails"][table_name] = IF Len(file) >= n THEN @ ELSE ZeroImage]

\* the tuple Page::fill reads from a slot of zero bytes
ZeroTuple == 0

\* the image a write_all leaves that stopped after the header and the first i
\* tuple slots of the new image, whose slots behind its tuples are the zero
\* padding of Page::raw: the slots behind the i-th are those of the old image.
\* Zero slots behind the last tuple counted are not kept.
TornImage(old, new, i) ==
    LET n == IF Len(old.tuples) > Len(new.tuples)
             THEN Len(old.tuples) ELSE Len(new.tuples)
        slots == [k \in 1..n |->
                    IF k <= i
                    THEN (IF k <= Len(new.tuples) THEN new.tuples[k] ELSE ZeroTuple)
                    ELSE (IF k <= Len(old.tuples) THEN old.tuples[k] ELSE ZeroTuple)]
        kept == {k \in 1..n : k <= new.tuple_count \/ slots[k] # ZeroTuple}
    IN  [tuple_count |-> new.tuple_count,
         tuples |-> SubSeq(slots, 1, IF kept = {} THEN 0
                                     ELSE CHOOSE k \in kept : \A j \in kept : j <= k)]

\* DiskManager::write returns an error: the files it can leave. Nothing is
\* written when open, the schema lookup or seek fails. When write_all stops
\* part of the way (before the tuple count is complete, or further on), a page
\* of the file is overwritten in part; a page written in part right behind the
\* last full page stays less than a page; and one written in part further out
\* also makes pages of the bytes that were behind the last full page and of
\* the hole.
DiskWriteFails(files, page, table_name) ==
    LET file == files[table_name]
        tail == files["tails"][table_name]
        n    == page.id + 1
        old  == IF n <= Len(file) THEN file[n]
                ELSE IF n = Len(file) + 1 THEN tail
                ELSE ZeroImage
        torn == {old} \cup
                {TornImage(old, PageRaw(page), i) :
                    i \in 0..(IF Len(old.tuples) > Len(page.body)
                              THEN Len(old.tuples) ELSE Len(page.body))}
    IN  {files} \cup
        IF n <= Len(file)
        THEN {[files EXCEPT ![table_name][n] = image] : image \in torn}
        ELSE IF n = Len(file) + 1
        THEN {[files EXCEPT !["tails"][table_name] = image] : image \in torn}
        ELSE {[files EXCEPT
                 ![table_name] = file \o [i \in 1..(n - 1 - Len(file)) |->
                                             IF i = 1 THEN tail ELSE ZeroImage],
                 !["tails"][table_name] = image] : image \in torn}

\* DiskManager::read succeeds when read_exact finds PAGE_SIZE bytes
DiskReadOk(files, page_id, table_name) == page_id < Len(files[table_name])

\* DiskManager::read
DiskRead(files, page_id, table_name) ==
    PageFill(page_id, files[table_name][page_id + 1])

\* DiskManager::allocate_page: the id of the page appended to the file
AllocatePageId(files, table_name) == Len(files[table_name])

\* DiskManager::allocate_page: the files after the default page is written
AllocatePage(files, table_name) ==
    DiskWrite(files, [PageDefault EXCEPT !.id = AllocatePageId(files, table_name)],
              table_name)

\* DiskManager::last_page_id (NoFrame stands for None, the empty file)
LastPageId(files, table_name) ==
    IF Len(files[table_name]) = 0 THEN NoFrame ELSE Len(files[table_name]) - 1

\* ------------------------------------------------------------- hash table
Key(page_id, table_name) == [page_id |-> page_id, table_name |-> table_name]

\* DefaultHasher::new, key.hash, finish: SipHash-1-3 with the keys 0, 0 over the
\* bytes the derived Hash of Key feeds it (page_id as 8 little-endian bytes,
\* the bytes of table_name, 0xff), here modulo 2520, which every size up to 10
\* divides
KeyHash(key) ==
    CASE key.table_name = "t1" /\ key.page_id = 0 -> 1257
      [] key.table_name = "t1" /\ key.page_id = 1 -> 378
      [] key.table_name = "t1" /\ key.page_id = 2 -> 2176
      [] key.table_name = "t1" /\ key.page_id = 3 -> 392
      [] key.table_name = "t2" /\ key.page_id = 0 -> 571
      [] key.table_name = "t2" /\ key.page_id = 1 -> 145
      [] key.table_name = "t2" /\ key.page_id = 2 -> 2187
      [] key.table_name = "t2" /\ key.page_id = 3 -> 2232

\* HashTable::calculate_bucket: hasher.finish() as usize % self.size, 1-based
CalculateBucket(key, size) == (KeyHash(key) % size) + 1

\* HashTable::same_bucket
SameBucket(key1, key2, size) ==
    CalculateBucket(key1, size) = CalculateBucket(key2, size)

\* A bucket's items are a Vec<(K, V)> in which put keeps the keys distinct and
\* whose order no operation observes: the model keeps the set of its pairs.
\* Bucket::get (NoFrame stands for None)
BucketGet(bucket, key) ==
    IF \E item \in bucket : item[1] = key
    THEN (CHOOSE item \in bucket : item[1] = key)[2]
    ELSE NoFrame

\* Bucket::remove
BucketRemove(bucket, key) == {item \in bucket : item[1] # key}

\* Bucket::put: the pair of the key is replaced, or the pair is pushed
BucketPut(bucket, key, value) == BucketRemove(bucket, key) \cup {<<key, value>>}

\* get_bucket_locker(key) followed by Bucket::get
TableGet(table, key) ==
    BucketGet(table[CalculateBucket(key, Len(table))], key)

\* the page-table update of load_page_from_storage_to_buffer_pool
TableRemap(table, victim_key, target_key, value) ==
    IF SameBucket(victim_key, target_key, Len(table))
    THEN LET b == CalculateBucket(victim_key, Len(table))
         IN  [table EXCEPT ![b] = BucketPut(BucketRemove(@, victim_key),
                                            target_key, value)]
    ELSE LET old == CalculateBucket(victim_key, Len(table))
             new == CalculateBucket(target_key, Len(table))
         IN  [table EXCEPT ![old] = BucketRemove(@, victim_key),
                           ![new] = BucketPut(@, target_key, value)]

\* --------------------------------------------------------------- replacer
\* a put that does not look for the id: a present id is pushed a second time
LruPutAgain(cache, id, cap) ==
    IF Len(cache) >= cap THEN Append(Tail(cache), id)
    ELSE Append(cache, id)

\* a put that leaves an id that is already present where it is
LruPutKeep(cache, id, cap) ==
    IF \E i \in 1..Len(cache) : cache[i] = id
    THEN cache
    ELSE IF Len(cache) >= cap THEN Append(Tail(cache), id)
    ELSE Append(cache, id)

\* lru::LruCache::put on a cache of the given capacity
LruPut(cache, id, cap) ==
    IF \E i \in 1..Len(cache) : cache[i] = id
    THEN Append(SelectSeq(cache, LAMBDA x : x # id), id)
    ELSE IF Len(cache) >= cap THEN Append(Tail(cache), id)
    ELSE Append(cache, id)

\* LruReplacer::unpin
ReplacerUnpin(cache, id, cap) == LruPut(cache, id, cap)

\* LruReplacer::pin: lru::LruCache::pop of the id
ReplacerPin(cache, id) == SelectSeq(cache, LAMBDA x : x # id)

\* LruReplacer::victim: the id popped (NoFrame stands for None)
ReplacerVictim(cache) == IF cache = <<>> THEN NoFrame ELSE Head(cache)

\* ------------------------------------------------------------ descriptors
\* Descriptor::new
DescriptorNew(id, buffer_pool_id) ==
    [id |-> id, dirty |-> FALSE, buffer_pool_id |-> buffer_pool_id, pin_count |-> 0]

\* pin_count is a usize: values of the upper end of the range are written
\* as negative numbers (-1 is usize::MAX)
\* Descriptor::pinned
Pinned(d) == d.pin_count # 0

\* Descriptor::reset
DescriptorReset(d) == [d EXCEPT !.dirty = FALSE, !.pin_count = 0]

\* a pin that stores 1 where the code adds 1
DescriptorPinSet(d) == [d EXCEPT !.pin_count = 1]

\* Descriptor::pin
DescriptorPin(d) == [d EXCEPT !.pin_count = @ + 1]

\* Descriptor::unpin
DescriptorUnpin(d) == [d EXCEPT !.pin_count = @ - 1]

\* ---------------------------------------------------- history records
NoTracked ==
    [phase |-> "none", table_name |-> NoTable, page_id |-> 0,
     frame |-> NoFrame, page |-> PageDefault]

\* the history of unpinned pages is not kept
TrackingOff == [NoTracked EXCEPT !.phase = "off"]

\* the history of the calls is not kept
NoHist == [kind |-> "none"]

\* ------------------------------------------------- buffer pool manager
\* BufferPoolManager::new: every descriptor id is unpinned into the replacer
RECURSIVE InitialReplacer(_, _)
InitialReplacer(n, size) ==
    IF n = 0 THEN <<>>
    ELSE ReplacerUnpin(InitialReplacer(n - 1, size), n - 1, size)

\* BufferPoolManager::victim_descriptor: write the frame's page back when the
\* descriptor is dirty, then reset and pin the descriptor
VictimDescriptor(d, page, files, table_name) ==
    [disk |-> IF d.dirty THEN DiskWrite(files, page, table_name) ELSE files,
     descriptor |-> DescriptorPin(DescriptorReset(d))]

\* BufferPoolManager::load_page_to_buffer_pool: BufferPool::put of the page read
LoadPageToBufferPool(pool, files, p_id, buffer_pool_id, table_name) ==
    [pool EXCEPT ![buffer_pool_id] =
        [id |-> buffer_pool_id, page |-> DiskRead(files, p_id, table_name)]]

\* the manager's state as one record, for the operations that call several
\* others
Mgr ==
    [replacer |-> replacer, descriptors |-> descriptors,
     buffer_pool |-> buffer_pool, page_table |-> page_table, disk |-> disk,
     frame_table |-> frame_table, panicked |-> panicked]

\* BufferPoolManager::load_page_from_storage_to_buffer_pool in the manager
\* state m, on the files as the caller left them; io lists the effects in the
\* order the code makes them
LoadIn(m, p_id, table_name, files) ==
    LET victim == ReplacerVictim(m.replacer)
    IN  IF victim = NoFrame
        THEN [result |-> "no_victim", frame |-> NoFrame, victim |-> NoFrame,
              replacer |-> m.replacer, descriptors |-> m.descriptors,
              page_table |-> m.page_table, buffer_pool |-> m.buffer_pool,
              disk |-> files, io |-> <<>>]
        ELSE
        LET d          == m.descriptors[victim]
            buffer     == m.buffer_pool[d.buffer_pool_id]
            vd         == VictimDescriptor(d, buffer.page, files, table_name)
            victim_key == Key(buffer.page.id, table_name)
            target_key == Key(p_id, table_name)
            table1     == TableRemap(m.page_table, victim_key, target_key, victim)
            readok     == DiskReadOk(vd.disk, p_id, table_name)
        IN  [result |-> IF readok THEN "ok" ELSE "read_error",
             frame |-> IF readok THEN buffer.id ELSE NoFrame,
             victim |-> victim,
             replacer |-> Tail(m.replacer),
             descriptors |-> [m.descriptors EXCEPT ![victim] = vd.descriptor],
             page_table |-> table1,
             buffer_pool |->
                 IF readok
                 THEN LoadPageToBufferPool(m.buffer_pool, vd.disk, p_id, buffer.id,
                                           table_name)
                 ELSE m.buffer_pool,
             disk |-> vd.disk,
             io |-> (IF d.dirty
                     THEN << <<"write", table_name, buffer.page.id>> >>
                     ELSE <<>>)
                    \o << <<"remove", table_name, buffer.page.id>>,
                          <<"put", table_name, p_id>>,
                          <<"read", table_name, p_id>> >>
                    \o (IF readok
                        THEN << <<"buffer_put", table_name, p_id>> >>
                        ELSE <<>>)]

\* BufferPoolManager::load_page_from_storage_to_buffer_pool in the current state
Load(p_id, table_name, files) == LoadIn(Mgr, p_id, table_name, files)

\* the load new_buffer(table_name) makes in the current state
NewLoad(table_name) ==
    Load(AllocatePageId(disk, table_name), table_name, AllocatePage(disk, table_name))

\* the load fetch_buffer(p_id, table_name) makes on a miss in the current state
FetchLoad(p_id, table_name) == Load(p_id, table_name, disk)

\* fetch_buffer(p_id, table_name) finds the key in the page table
FetchHit(p_id, table_name) == TableGet(page_table, Key(p_id, table_name)) # NoFrame

\* the frame a cache hit of fetch_buffer returns: buffer_pool.get of the
\* descriptor's buffer_pool_id
FetchHitFrame(p_id, table_name) ==
    descriptors[TableGet(page_table, Key(p_id, table_name))].buffer_pool_id

\* the primed variables of an operation that went through Load
ApplyLoad(op, table_name, r) ==
    /\ replacer' = r.replacer
    /\ descriptors' = r.descriptors
    /\ page_table' = r.page_table
    /\ buffer_pool' = r.buffer_pool
    /\ disk' = r.disk
    /\ frame_table' = IF r.result = "ok"
                      THEN [frame_table EXCEPT ![r.frame] = table_name]
                      ELSE frame_table
    /\ handed' = IF r.result = "ok" THEN handed \cup {r.frame} ELSE handed
    /\ tracked' = IF r.victim # NoFrame /\ tracked.phase = "unpinned"
                     /\ tracked.frame = r.victim
                  THEN [tracked EXCEPT !.phase = "evicted"]
                  ELSE tracked
    /\ last' = [op |-> op, result |-> r.result]
    /\ UNCHANGED <<pool_size, tables, build, panicked>>

\* a replacer constructor without the assertion on its size
LruReplacerNewUnchecked(size) == [ok |-> TRUE, cache |-> <<>>]

\* LruReplacer::new: assert!(size > 0), then an empty cache of that capacity
LruReplacerNew(size) == [ok |-> size > 0, cache |-> <<>>]

\* Descriptors::new: assert!(size > 0), then descriptor n bound to frame n
DescriptorsNew(size) ==
    [ok |-> size > 0, items |-> [i \in 0..(size - 1) |-> DescriptorNew(i, i)]]

\* BufferPool::new: assert!(size > 0), then every frame holds Page::default
BufferPoolNew(size) ==
    [ok |-> size > 0,
     cache |-> [i \in 0..(size - 1) |-> [id |-> i, page |-> PageDefault]]]

\* HashTable::new: assert!(size > 0), then size empty buckets
HashTableNew(size) == [ok |-> size > 0, buckets |-> [i \in 1..size |-> {}]]

\* BufferPoolManager::new: the parts are constructed in the order of the code
\* and a failed assertion panics; then every descriptor id is unpinned into
\* the replacer
ManagerNew(size) ==
    LET r == LruReplacerNew(size)
        b == BufferPoolNew(size)
        t == HashTableNew(size)
        d == DescriptorsNew(size)
    IN  IF r.ok /\ b.ok /\ t.ok /\ d.ok
        THEN [panicked |-> FALSE, replacer |-> InitialReplacer(size, size),
              descriptors |-> d.items, buffer_pool |-> b.cache,
              page_table |-> t.buckets]
        ELSE [panicked |-> TRUE, replacer |-> <<>>, descriptors |-> <<>>,
              buffer_pool |-> <<>>, page_table |-> <<>>]

\* the managers the model constructs: a catalog of two tables over a pool of
\* one frame, a catalog of one table over the larger pools
Configs ==
    {[pool_size |-> n, tables |-> IF n = 1 THEN Tables ELSE {"t1"}] : n \in 1..MaxPoolSize}

\* the state BufferPoolManager::new leaves, for the given history record
InitWith(configs, builds, tracked0) ==
    /\ \E c \in configs : pool_size = c.pool_size /\ tables = c.tables
    /\ build \in builds
    /\ panicked = FALSE
    /\ LET m == ManagerNew(pool_size)
       IN  /\ replacer = m.replacer
           /\ descriptors = m.descriptors
           /\ buffer_pool = m.buffer_pool
           /\ page_table = m.page_table
    /\ disk = Files([t \in Tables |-> <<>>])
    /\ frame_table = [i \in 0..(pool_size - 1) |-> NoTable]
    /\ handed = {}
    /\ tracked = tracked0
    /\ last = [op |-> "new", result |-> "ok"]
    /\ hist = NoHist

\* the build with overflow checks: an unpin without a matching pin panics
Init == InitWith(Configs, {"debug"}, TrackingOff)

\* BufferPoolManager::new_buffer
NewBuffer(table_name) ==
    /\ ~panicked
    /\ UNCHANGED hist
    /\ Len(disk[table_name]) < MaxPages
    /\ ApplyLoad("new_buffer", table_name, NewLoad(table_name))

\* BufferPoolManager::fetch_buffer
FetchBuffer(p_id, table_name) ==
    /\ ~panicked
    /\ UNCHANGED hist
    /\ LET d_id == TableGet(page_table, Key(p_id, table_name))
       IN  IF d_id # NoFrame
           THEN /\ descriptors[d_id].pin_count < MaxPin
                /\ descriptors' = [descriptors EXCEPT ![d_id] = DescriptorPin(@)]
                /\ handed' = handed \cup {descriptors[d_id].buffer_pool_id}
                /\ last' = [op |-> "fetch_buffer", result |-> "hit"]
                /\ UNCHANGED <<pool_size, tables, build, panicked, replacer,
                               buffer_pool, page_table, disk, frame_table, tracked>>
           ELSE ApplyLoad("fetch_buffer", table_name, FetchLoad(p_id, table_name))

\* BufferPoolManager::unpin_buffer
UnpinBuffer(p_id, table_name) ==
    /\ ~panicked
    /\ UNCHANGED hist
    /\ LET descriptor_id == TableGet(page_table, Key(p_id, table_name))
       IN  IF descriptor_id = NoFrame
           THEN /\ last' = [op |-> "unpin_buffer", result |-> "absent"]
                /\ UNCHANGED <<pool_size, tables, build, panicked, replacer,
                               descriptors, buffer_pool, page_table, disk,
                               frame_table, handed, tracked>>
           ELSE IF descriptors[descriptor_id].pin_count = 0 /\ build = "debug"
           THEN \* attempt to subtract with overflow
                /\ panicked' = TRUE
                /\ last' = [op |-> "unpin_buffer", result |-> "panic"]
                /\ UNCHANGED <<pool_size, tables, build, replacer, descriptors,
                               buffer_pool, page_table, disk, frame_table, handed, tracked>>
           ELSE LET d == DescriptorUnpin(descriptors[descriptor_id])
                    page == buffer_pool[d.buffer_pool_id].page
                IN  /\ d.pin_count >= 0 - MaxWrap
                    /\ descriptors' = [descriptors EXCEPT ![descriptor_id] = d]
                    /\ replacer' = IF ~Pinned(d)
                                   THEN ReplacerUnpin(replacer, descriptor_id, pool_size)
                                   ELSE replacer
                    /\ tracked' = IF tracked.phase # "off" /\ d.dirty
                                     /\ frame_table[descriptor_id] = table_name
                                     /\ page.id = p_id
                                  THEN [phase |-> "unpinned", table_name |-> table_name,
                                        page_id |-> p_id, frame |-> descriptor_id,
                                        page |-> page]
                                  ELSE tracked
                    /\ last' = [op |-> "unpin_buffer", result |-> "ok"]
                    /\ UNCHANGED <<pool_size, tables, build, panicked, buffer_pool,
                                   page_table, disk, frame_table, handed>>

\* BufferPoolManager::mark_dirty
MarkDirty(buffer_pool_id) ==
    /\ ~panicked
    /\ UNCHANGED hist
    /\ descriptors' = [descriptors EXCEPT ![buffer_pool_id].dirty = TRUE]
    /\ last' = [op |-> "mark_dirty", result |-> "ok"]
    /\ UNCHANGED <<pool_size, tables, build, panicked, replacer, buffer_pool,
                   page_table, disk, frame_table, handed, tracked>>

\* BufferPoolManager::flush_buffer: the files it leaves
FlushDisk(p_id, table_name) ==
    LET descriptor_id == TableGet(page_table, Key(p_id, table_name))
    IN  IF descriptor_id = NoFrame THEN disk
        ELSE DiskWrite(disk, buffer_pool[descriptors[descriptor_id].buffer_pool_id].page,
                       table_name)

\* a flush_buffer that clears the dirty bit of the descriptor it wrote
FlushBufferClean(p_id, table_name) ==
    /\ ~panicked
    /\ UNCHANGED hist
    /\ disk' = FlushDisk(p_id, table_name)
    /\ descriptors' =
          IF FetchHit(p_id, table_name)
          THEN [descriptors EXCEPT
                  ![TableGet(page_table, Key(p_id, table_name))].dirty = FALSE]
          ELSE descriptors
    /\ last' = [op |-> "flush_buffer",
                result |-> IF FetchHit(p_id, table_name) THEN "ok" ELSE "absent"]
    /\ UNCHANGED <<pool_size, tables, build, panicked, replacer,
                   buffer_pool, page_table, frame_table, handed, tracked>>

\* BufferPoolManager::flush_buffer
FlushBuffer(p_id, table_name) ==
    /\ ~panicked
    /\ UNCHANGED hist
    /\ disk' = FlushDisk(p_id, table_name)
    /\ last' = [op |-> "flush_buffer",
                result |-> IF FetchHit(p_id, table_name) THEN "ok" ELSE "absent"]
    /\ UNCHANGED <<pool_size, tables, build, panicked, replacer, descriptors,
                   buffer_pool, page_table, frame_table, handed, tracked>>

\* a caller holds the Arc of the frame's current Buffer: a load hands out the
\* Arc BufferPool::put has just made, a hit of fetch_buffer and dirty_buffers
\* the Arc BufferPool::get finds, which for a frame no load has filled is the
\* one BufferPool::new made
Handle(buffer_pool_id) == buffer_pool_id \in handed

\* a caller holding a pinned frame appends a tuple: buffer.page.add_tuple(tuple)
AddTuple(buffer_pool_id, tuple) ==
    /\ ~panicked
    /\ UNCHANGED hist
    /\ Handle(buffer_pool_id)
    /\ Pinned(descriptors[buffer_pool_id])
    /\ buffer_pool[buffer_pool_id].page.header.tuple_count < TuplesPerPage
    /\ buffer_pool' = [buffer_pool EXCEPT ![buffer_pool_id].page = PageAddTuple(@, tuple)]
    /\ tracked' = IF tracked.phase \notin {"off", "none"}
                     /\ frame_table[buffer_pool_id] = tracked.table_name
                     /\ buffer_pool[buffer_pool_id].page.id = tracked.page_id
                  THEN NoTracked ELSE tracked
    /\ last' = [op |-> "add_tuple", result |-> "ok"]
    /\ UNCHANGED <<pool_size, tables, build, panicked, replacer, descriptors,
                   page_table, disk, frame_table, handed>>

\* BufferPoolManager::dirty_buffers: the frames of the descriptors whose dirty
\* bit is set
DirtyBuffers ==
    {descriptors[d].buffer_pool_id : d \in {x \in Frames : descriptors[x].dirty}}

\* a caller calls BufferPoolManager::dirty_buffers and keeps the Arcs it returns
DirtyBuffersCall ==
    /\ ~panicked
    /\ UNCHANGED hist
    /\ handed' = handed \cup DirtyBuffers
    /\ last' = [op |-> "dirty_buffers", result |-> "ok"]
    /\ UNCHANGED <<pool_size, tables, build, panicked, replacer, descriptors,
                   buffer_pool, page_table, disk, frame_table, tracked>>

Next ==
    \/ \E t \in tables : NewBuffer(t)
    \/ \E p \in PageIds, t \in tables : FetchBuffer(p, t)
    \/ \E p \in PageIds, t \in tables : UnpinBuffer(p, t)
    \/ \E b \in Frames : MarkDirty(b)
    \/ \E p \in PageIds, t \in tables : FlushBuffer(p, t)
    \/ \E b \in Frames, v \in Values : AddTuple(b, v)
    \/ DirtyBuffersCall

Spec == Init /\ [][Next]_vars

\* a miss load whose write of the dirty victim fails (DiskManager::write returns
\* the error of open, seek or write_all): victim_descriptor returns the error
\* after the replacer gave up the victim and before the descriptor is reset
LoadWriteFails(op, files, table_name) ==
    LET victim == ReplacerVictim(replacer)
    IN  /\ victim # NoFrame
        /\ descriptors[victim].dirty
        /\ replacer' = Tail(replacer)
        /\ disk' \in DiskWriteFails(
                         files,
                         buffer_pool[descriptors[victim].buffer_pool_id].page,
                         table_name)
        /\ last' = [op |-> op, result |-> "write_error"]
        /\ hist.faults < MaxFaults
        /\ hist' = [hist EXCEPT !.faults = @ + 1]
        /\ UNCHANGED <<pool_size, tables, build, panicked, descriptors, buffer_pool,
                       page_table, frame_table, handed, tracked>>

\* BufferPoolManager::new_buffer when the write of the dirty victim fails
NewBufferWriteFails(table_name) ==
    /\ ~panicked
    /\ Len(disk[table_name]) < MaxPages
    /\ LoadWriteFails("new_buffer", AllocatePage(disk, table_name), table_name)

\* BufferPoolManager::fetch_buffer when the write of the dirty victim fails
FetchBufferWriteFails(p_id, table_name) ==
    /\ ~panicked
    /\ ~FetchHit(p_id, table_name)
    /\ LoadWriteFails("fetch_buffer", disk, table_name)

\* BufferPoolManager::new_buffer when DiskManager::allocate_page fails (its
\* open or its write): the error is returned before the load; the page is at
\* the end of the file, where a write that fails leaves less than a page
NewBufferAllocateFails(table_name) ==
    /\ ~panicked
    /\ disk' \in DiskWriteFails(
                     disk, [PageDefault EXCEPT !.id = AllocatePageId(disk, table_name)],
                     table_name)
    /\ last' = [op |-> "new_buffer", result |-> "allocate_error"]
    /\ hist.faults < MaxFaults
    /\ hist' = [hist EXCEPT !.faults = @ + 1]
    /\ UNCHANGED <<pool_size, tables, build, panicked, replacer, descriptors,
                   buffer_pool, page_table, frame_table, handed, tracked>>

\* BufferPoolManager::flush_buffer of a mapped page when DiskManager::write
\* fails: the unwrap of the error panics
FlushBufferWriteFails(p_id, table_name) ==
    /\ ~panicked
    /\ FetchHit(p_id, table_name)
    /\ disk' \in DiskWriteFails(disk, buffer_pool[FetchHitFrame(p_id, table_name)].page,
                                 table_name)
    /\ panicked' = TRUE
    /\ last' = [op |-> "flush_buffer", result |-> "panic"]
    /\ hist.faults < MaxFaults
    /\ hist' = [hist EXCEPT !.faults = @ + 1]
    /\ UNCHANGED <<pool_size, tables, build, replacer, descriptors, buffer_pool,
                   page_table, frame_table, handed, tracked>>

NextIO ==
    \/ Next
    \/ \E t \in tables : NewBufferWriteFails(t)
    \/ \E p \in PageIds, t \in tables : FetchBufferWriteFails(p, t)
    \/ \E t \in tables : NewBufferAllocateFails(t)
    \/ \E p \in PageIds, t \in tables : FlushBufferWriteFails(p, t)

\* the manager of n frames over a disk whose writes may fail, with the history
\* of the number of writes that failed so far
InitIO(n) ==
    /\ \E c \in Configs : c.pool_size = n /\ pool_size = n /\ tables = c.tables
    /\ build = "debug"
    /\ LET m == ManagerNew(pool_size)
       IN  /\ panicked = m.panicked
           /\ replacer = m.replacer
           /\ descriptors = m.descriptors
           /\ buffer_pool = m.buffer_pool
           /\ page_table = m.page_table
    /\ disk = Files([t \in Tables |-> <<>>])
    /\ frame_table = [i \in 0..(pool_size - 1) |-> NoTable]
    /\ handed = {}
    /\ tracked = TrackingOff
    /\ last = [op |-> "new", result |-> "ok"]
    /\ hist = [kind |-> "io", faults |-> 0]

\* the manager of one frame over two tables, on a disk whose writes may
\* fail: every miss load evicts, and a victim is written into the file of the
\* table the load asks for
SpecIO == InitIO(1) /\ [][NextIO]_vars

\* the manager of two frames over one table, on a disk whose writes may fail
SpecIOPool == InitIO(2) /\ [][NextIO]_vars

\* the construction itself, also with the pool_size the constructors refuse
InitConstruct ==
    /\ pool_size \in 0..MaxPoolSize
    /\ tables = IF pool_size = 1 THEN Tables ELSE {"t1"}
    /\ build = "debug"
    /\ LET m == ManagerNew(pool_size)
       IN  /\ panicked = m.panicked
           /\ replacer = m.replacer
           /\ descriptors = m.descriptors
           /\ buffer_pool = m.buffer_pool
           /\ page_table = m.page_table
    /\ disk = Files([t \in Tables |-> <<>>])
    /\ frame_table = [i \in 0..(pool_size - 1) |-> NoTable]
    /\ handed = {}
    /\ tracked = TrackingOff
    /\ last = [op |-> "new", result |-> IF panicked THEN "panic" ELSE "ok"]
    /\ hist = NoHist

SpecConstruct == InitConstruct /\ [][Next]_vars

\* a manager constructed over table files that already have pages
InitFresh ==
    /\ pool_size \in 1..MaxPoolSize
    /\ tables = Tables
    /\ build = "debug"
    /\ LET m == ManagerNew(pool_size)
       IN  /\ panicked = m.panicked
           /\ replacer = m.replacer
           /\ descriptors = m.descriptors
           /\ buffer_pool = m.buffer_pool
           /\ page_table = m.page_table
    /\ \E pages \in [Tables -> {[i \in 1..n |-> ZeroImage] : n \in 0..MaxPages}] :
          disk = Files(pages)
    /\ frame_table = [i \in 0..(pool_size - 1) |-> NoTable]
    /\ handed = {}
    /\ tracked = TrackingOff
    /\ last = [op |-> "new", result |-> "ok"]
    /\ hist = NoHist

\* fetch_buffer of a page that is in the file and that no frame holds yet
FetchDistinct(p_id, table_name) ==
    /\ DiskReadOk(disk, p_id, table_name)
    /\ ~FetchHit(p_id, table_name)
    /\ \A f \in Frames :
          ~(frame_table[f] = table_name /\ buffer_pool[f].page.id = p_id)
    /\ FetchBuffer(p_id, table_name)

\* the calls on a fresh manager are miss loads of distinct pages, never an unpin
NextFresh ==
    \/ \E t \in tables : NewBuffer(t)
    \/ \E p \in PageIds, t \in tables : FetchDistinct(p, t)

SpecFresh == InitFresh /\ [][NextFresh]_vars

\* ------------------------------------------------------------- executor
\* the manager state after a load r for table_name
MgrLoad(m, table_name, r) ==
    [m EXCEPT !.replacer = r.replacer,
              !.descriptors = r.descriptors,
              !.page_table = r.page_table,
              !.buffer_pool = r.buffer_pool,
              !.disk = r.disk,
              !.frame_table = IF r.result = "ok"
                              THEN [@ EXCEPT ![r.frame] = table_name]
                              ELSE @]

\* what a load r for table_name hands back, with the manager state it leaves
MgrLoaded(m, table_name, r) ==
    [m |-> MgrLoad(m, table_name, r), result |-> r.result, frame |-> r.frame]

\* BufferPoolManager::new_buffer in the manager state m
MgrNewBuffer(m, table_name) ==
    MgrLoaded(m, table_name,
              LoadIn(m, AllocatePageId(m.disk, table_name), table_name,
                     AllocatePage(m.disk, table_name)))

\* BufferPoolManager::fetch_buffer once the page table answered d_id
MgrFetchAt(m, p_id, table_name, d_id) ==
    IF d_id # NoFrame
    THEN [m |-> [m EXCEPT !.descriptors[d_id] = DescriptorPin(@)],
          result |-> "hit", frame |-> m.descriptors[d_id].buffer_pool_id]
    ELSE MgrLoaded(m, table_name, LoadIn(m, p_id, table_name, m.disk))

\* BufferPoolManager::fetch_buffer in the manager state m
MgrFetchBuffer(m, p_id, table_name) ==
    MgrFetchAt(m, p_id, table_name, TableGet(m.page_table, Key(p_id, table_name)))

\* BufferPoolManager::unpin_buffer once the page table answered descriptor_id,
\* overflow checks on
MgrUnpinAt(m, descriptor_id) ==
    IF descriptor_id = NoFrame THEN m
    ELSE IF m.descriptors[descriptor_id].pin_count = 0
    THEN [m EXCEPT !.panicked = TRUE]
    ELSE [m EXCEPT !.descriptors[descriptor_id] = DescriptorUnpin(@),
                   !.replacer =
                       IF ~Pinned(DescriptorUnpin(m.descriptors[descriptor_id]))
                       THEN ReplacerUnpin(@, descriptor_id, pool_size)
                       ELSE @]

\* BufferPoolManager::unpin_buffer in the manager state m
MgrUnpinBuffer(m, p_id, table_name) ==
    MgrUnpinAt(m, TableGet(m.page_table, Key(p_id, table_name)))

\* Page::can_add_tuple: the page has room for one more tuple
CanAddTuple(page) == page.header.tuple_count < TuplesPerPage

\* Executor::find_writable_buffer, the last page was full and u is the manager
\* after its unpin: new_buffer
FindWritableNew(u, table_name) ==
    IF u.panicked
    THEN [m |-> u, result |-> "panic", frame |-> NoFrame]
    ELSE MgrNewBuffer(u, table_name)

\* Executor::find_writable_buffer, b is what fetch_buffer of the last page gave
FindWritableIn(b, p_id, table_name) ==
    IF b.result \notin {"ok", "hit"} THEN b
    ELSE IF CanAddTuple(b.m.buffer_pool[b.frame].page) THEN b
    ELSE FindWritableNew(MgrUnpinBuffer(b.m, p_id, table_name), table_name)

\* Executor::find_writable_buffer, p_id is what last_page_id gave
FindWritableFrom(m, table_name, p_id) ==
    IF p_id = NoFrame THEN MgrNewBuffer(m, table_name)
    ELSE FindWritableIn(MgrFetchBuffer(m, p_id, table_name), p_id, table_name)

\* Executor::find_writable_buffer
FindWritableBuffer(m, table_name) ==
    FindWritableFrom(m, table_name, LastPageId(m.disk, table_name))

\* Executor::insert, m2 is the manager after unpin_buffer
InsertDone(m2) ==
    [m |-> m2, result |-> IF m2.panicked THEN "panic" ELSE "ok"]

\* Executor::insert, m1 is the manager after add_tuple: unpin_buffer(b.page.id)
InsertUnpin(m1, frame, table_name) ==
    InsertDone(MgrUnpinBuffer(m1, m1.buffer_pool[frame].page.id, table_name))

\* Executor::insert, b is what find_writable_buffer gave: the tuple is added
\* through the buffer handed out
InsertInto(b, tuple, table_name) ==
    IF b.result \notin {"ok", "hit"} THEN [m |-> b.m, result |-> b.result]
    ELSE InsertUnpin([b.m EXCEPT !.buffer_pool[b.frame].page = PageAddTuple(@, tuple)],
                     b.frame, table_name)

\* Executor::insert
ExecInsert(m, tuple, table_name) ==
    InsertInto(FindWritableBuffer(m, table_name), tuple, table_name)

RECURSIVE ScanFrom(_, _, _, _, _)
\* Executor::scan, u is the manager after the unpin of page i
ScanNext(u, table_name, i, last_id, records) ==
    IF u.panicked
    THEN [m |-> u, result |-> "panic", records |-> records]
    ELSE ScanFrom(u, table_name, i + 1, last_id, records)

\* Executor::scan, b is what fetch_buffer of page i gave: push the tuples of
\* the buffer's page, unpin_buffer(b.page.id)
ScanPage(b, table_name, i, last_id, records) ==
    IF b.result \notin {"ok", "hit"}
    THEN [m |-> b.m, result |-> b.result, records |-> records]
    ELSE ScanNext(MgrUnpinBuffer(b.m, b.m.buffer_pool[b.frame].page.id, table_name),
                  table_name, i, last_id,
                  records \o b.m.buffer_pool[b.frame].page.body)

\* Executor::scan, pages i..last_id
ScanFrom(m, table_name, i, last_id, records) ==
    IF i > last_id THEN [m |-> m, result |-> "ok", records |-> records]
    ELSE ScanPage(MgrFetchBuffer(m, i, table_name), table_name, i, last_id, records)

\* Executor::scan, last_id is what last_page_id gave
ScanTo(m, table_name, last_id) ==
    IF last_id = NoFrame THEN [m |-> m, result |-> "ok", records |-> <<>>]
    ELSE ScanFrom(m, table_name, 0, last_id, <<>>)

\* Executor::scan
ExecScan(m, table_name) == ScanTo(m, table_name, LastPageId(m.disk, table_name))

\* history of the executor: the rows each table was given by the inserts that
\* returned Ok, in the order of the inserts, and what the last scan pushed
NoRows ==
    [kind |-> "executor", inserted |-> [t \in Tables |-> <<>>],
     count |-> 0, table_name |-> NoTable, records |-> <<>>]

\* the primed variables after an operation of the executor left the manager in m;
\* pin counts are followed up to MaxPin; the executor drops every Arc it was
\* handed before it returns
ApplyMgr(m) ==
    /\ \A i \in DOMAIN m.descriptors : m.descriptors[i].pin_count <= MaxPin
    /\ replacer' = m.replacer
    /\ descriptors' = m.descriptors
    /\ buffer_pool' = m.buffer_pool
    /\ page_table' = m.page_table
    /\ disk' = m.disk
    /\ frame_table' = m.frame_table
    /\ handed' = handed
    /\ panicked' = m.panicked
    /\ UNCHANGED <<pool_size, tables, build, tracked>>

\* the state after Executor::insert returned r
Inserted(r, tuple, table_name) ==
    /\ ApplyMgr(r.m)
    /\ last' = [op |-> "insert", result |-> r.result]
    /\ hist' = [hist EXCEPT
                  !.count = @ + 1,
                  !.inserted[table_name] =
                      IF r.result = "ok" THEN Append(@, tuple) ELSE @]

\* the request handler runs Executor::insert: the k-th insert carries the row k
Insert(table_name) ==
    /\ ~panicked
    /\ hist.count < MaxInserts
    /\ Inserted(ExecInsert(Mgr, hist.count + 1, table_name), hist.count + 1,
                table_name)

\* the state after Executor::scan returned r
Scanned(r, table_name) ==
    /\ ApplyMgr(r.m)
    /\ last' = [op |-> "scan", result |-> r.result]
    /\ hist' = [hist EXCEPT !.table_name = table_name, !.records = r.records]

\* the request handler runs Executor::scan
Scan(table_name) ==
    /\ ~panicked
    /\ Scanned(ExecScan(Mgr, table_name), table_name)

\* the executor over a fresh manager and empty table files
InitExecutor ==
    /\ \E c \in Configs : pool_size = c.pool_size /\ tables = c.tables
    /\ build = "debug"
    /\ LET m == ManagerNew(pool_size)
       IN  /\ panicked = m.panicked
           /\ replacer = m.replacer
           /\ descriptors = m.descriptors
           /\ buffer_pool = m.buffer_pool
           /\ page_table = m.page_table
    /\ disk = Files([t \in Tables |-> <<>>])
    /\ frame_table = [i \in 0..(pool_size - 1) |-> NoTable]
    /\ handed = {}
    /\ tracked = TrackingOff
    /\ last = [op |-> "new", result |-> "ok"]
    /\ hist = NoRows

NextExecutor ==
    \/ \E t \in tables : Insert(t)
    \/ \E t \in tables : Scan(t)

SpecExecutor == InitExecutor /\ [][NextExecutor]_vars

\* ------------------------------------------------------------- shutdown
\* flush_all writes the dirty frames out in the order dirty_buffers lists them
\* (ascending descriptor id), each to the file of the table its page was read
\* from; a dirty frame no load has filled holds no page and is not written
RECURSIVE FlushAllFrom(_, _)
FlushAllFrom(files, d) ==
    IF d >= pool_size THEN files
    ELSE LET b == descriptors[d].buffer_pool_id
         IN  FlushAllFrom(IF b \in DirtyBuffers /\ frame_table[b] # NoTable
                          THEN DiskWrite(files, buffer_pool[b].page, frame_table[b])
                          ELSE files,
                          d + 1)

\* flush_all, called by exit_handler: the process ends after it
FlushAll ==
    /\ ~panicked
    /\ last.op # "flush_all"
    /\ disk' = FlushAllFrom(disk, 0)
    /\ last' = [op |-> "flush_all", result |-> "ok"]
    /\ UNCHANGED <<pool_size, tables, build, panicked, replacer, descriptors,
                   buffer_pool, page_table, frame_table, handed, tracked, hist>>

\* the manager is driven until the exit request
NextShutdown ==
    \/ last.op # "flush_all" /\ Next
    \/ FlushAll

SpecShutdown == Init /\ [][NextShutdown]_vars

\* ------------------------------------------------ the replacer on its own
\* the ids a caller hands to a replacer: one more than the largest capacity
ReplacerIds == 0..MaxPoolSize

\* the ids the history has as present; the history of a replacer driven on
\* its own is the number of unpin calls so far (clock) and, for every id, the
\* number of its most recent unpin (stamp; 0: the id was not unpinned since it
\* last left the replacer)
StampPresent(h) == {i \in ReplacerIds : h.stamp[i] > 0}

\* the present id whose most recent unpin is the oldest (NoFrame: none present)
StampOldest(h) ==
    IF StampPresent(h) = {} THEN NoFrame
    ELSE CHOOSE i \in StampPresent(h) :
            \A j \in StampPresent(h) : h.stamp[i] <= h.stamp[j]

\* the history after unpin(id) on a replacer of capacity cap: a new id put into
\* a full replacer pushes out the id whose unpin is the oldest
StampUnpin(h, id, cap) ==
    LET full == id \notin StampPresent(h) /\ Cardinality(StampPresent(h)) >= cap
    IN  [h EXCEPT !.clock = @ + 1,
                  !.stamp = [i \in ReplacerIds |->
                                IF i = id THEN h.clock + 1
                                ELSE IF full /\ i = StampOldest(h) THEN 0
                                ELSE h.stamp[i]]]

\* the history after the id left the replacer
StampRemove(h, id) ==
    IF id = NoFrame THEN h ELSE [h EXCEPT !.stamp[id] = 0]

\* LruReplacer::new(pool_size) for the capacities 1..MaxPoolSize
InitReplacer ==
    /\ pool_size \in 1..MaxPoolSize
    /\ replacer = LruReplacerNew(pool_size).cache
    /\ tables = {}
    /\ build = "debug"
    /\ panicked = FALSE
    /\ descriptors = <<>>
    /\ buffer_pool = <<>>
    /\ page_table = <<>>
    /\ disk = Files([t \in Tables |-> <<>>])
    /\ frame_table = <<>>
    /\ handed = {}
    /\ tracked = TrackingOff
    /\ last = [op |-> "new", result |-> "ok"]
    /\ hist = [kind |-> "replacer", clock |-> 0, stamp |-> [i \in ReplacerIds |-> 0]]

\* a call of LruReplacer::unpin
CallUnpin(id) ==
    /\ hist.clock < MaxCalls
    /\ replacer' = ReplacerUnpin(replacer, id, pool_size)
    /\ hist' = StampUnpin(hist, id, pool_size)
    /\ last' = [op |-> "unpin", result |-> "ok"]
    /\ UNCHANGED <<pool_size, tables, build, panicked, descriptors, buffer_pool,
                   page_table, disk, frame_table, handed, tracked>>

\* a call of LruReplacer::pin
CallPin(id) ==
    /\ replacer' = ReplacerPin(replacer, id)
    /\ hist' = StampRemove(hist, id)
    /\ last' = [op |-> "pin", result |-> "ok"]
    /\ UNCHANGED <<pool_size, tables, build, panicked, descriptors, buffer_pool,
                   page_table, disk, frame_table, handed, tracked>>

\* a call of LruReplacer::victim: pop_lru, the id returned is last.result
CallVictim ==
    /\ replacer' = IF replacer = <<>> THEN replacer ELSE Tail(replacer)
    /\ hist' = StampRemove(hist, ReplacerVictim(replacer))
    /\ last' = [op |-> "victim", result |-> ReplacerVictim(replacer)]
    /\ UNCHANGED <<pool_size, tables, build, panicked, descriptors, buffer_pool,
                   page_table, disk, frame_table, handed, tracked>>

NextReplacer ==
    \/ \E id \in ReplacerIds : CallUnpin(id)
    \/ \E id \in ReplacerIds : CallPin(id)
    \/ CallVictim

SpecReplacer == InitReplacer /\ [][NextReplacer]_vars

\* the manager built with or without overflow checks (debug and release
\* profiles of cargo)
InitBuilds == InitWith(Configs, Builds, TrackingOff)

SpecBuilds == InitBuilds /\ [][Next]_vars

\* the manager of one frame over two tables, with the history of the page last
\* unpinned while dirty
InitTracked == InitWith({c \in Configs : c.pool_size = 1}, {"debug"}, NoTracked)

SpecTracked == InitTracked /\ [][Next]_vars

\* ------------------------------------------------- the page image
PAGE_SIZE == 4096
PAGE_HEADER_SIZE == 32
TUPLE_HEADER_SIZE == 8

\* vec![0_u8; n]
Zeros(n) == [i \in 1..n |-> 0]

\* u32::to_be_bytes and i32::to_be_bytes: the four bytes of the two's
\* complement, most significant first
ToBeBytes(v) ==
    << (v \div 16777216) % 256, (v \div 65536) % 256, (v \div 256) % 256, v % 256 >>

\* u32::from_be_bytes, for the counts below 2^31
U32FromBeBytes(b) == b[1] * 16777216 + b[2] * 65536 + b[3] * 256 + b[4]

\* i32::from_be_bytes
I32FromBeBytes(b) ==
    (IF b[1] >= 128 THEN b[1] - 256 ELSE b[1]) * 16777216
        + b[2] * 65536 + b[3] * 256 + b[4]

\* AttributeType::Int and AttributeType::Text; a String is its UTF-8 bytes
AttrInt(v) == [tag |-> "Int", int |-> v]
AttrText(v) == [tag |-> "Text", text |-> v]

\* Table::tuple_size, columns k..Len(columns)
RECURSIVE ColumnsSize(_, _)
ColumnsSize(columns, k) ==
    IF k > Len(columns) THEN 0
    ELSE (IF columns[k].types = "int" THEN 4
          ELSE IF columns[k].types = "text" THEN 256
          ELSE 0) + ColumnsSize(columns, k + 1)

\* Table::tuple_size
TupleSize(columns) == TUPLE_HEADER_SIZE + ColumnsSize(columns, 1)

\* PageHeader::raw
PageHeaderRaw(header) == ToBeBytes(header.tuple_count) \o Zeros(32 - 4)

\* PageHeader::fill
PageHeaderFill(raw) == [tuple_count |-> U32FromBeBytes(SubSeq(raw, 1, 4))]

\* TupleHeader::raw
TupleHeaderRaw(header) == <<header.deleted>> \o Zeros(8 - 1)

\* TupleHeader::fill
TupleHeaderFill(raw) == [deleted |-> raw[1]]

\* a raw that lets a text of any length through
AttributePanicsLax(attributes, column) ==
    \/ column.name \notin DOMAIN attributes
    \/ column.types \notin {"int", "text"}
    \/ column.types = "int" /\ attributes[column.name].tag # "Int"
    \/ column.types = "text" /\ attributes[column.name].tag # "Text"

\* TupleBody::raw panics on the column: the attribute is missing or is not of
\* the column's type (unwrap of None), or the text is longer than 255 bytes
\* (255 - len overflows)
AttributePanics(attributes, column) ==
    \/ column.name \notin DOMAIN attributes
    \/ column.types \notin {"int", "text"}
    \/ column.types = "int" /\ attributes[column.name].tag # "Int"
    \/ column.types = "text" /\ attributes[column.name].tag # "Text"
    \/ column.types = "text" /\ Len(attributes[column.name].text) > 255

\* TupleBody::raw, the bytes of one attribute
AttributeRaw(attribute) ==
    IF attribute.tag = "Int" THEN ToBeBytes(attribute.int)
    ELSE <<Len(attribute.text) % 256>> \o attribute.text
            \o Zeros(255 - Len(attribute.text))

\* TupleBody::raw, columns k..Len(columns)
RECURSIVE TupleBodyRaw(_, _, _)
TupleBodyRaw(attributes, columns, k) ==
    IF k > Len(columns) THEN <<>>
    ELSE AttributeRaw(attributes[columns[k].name])
            \o TupleBodyRaw(attributes, columns, k + 1)

\* Tuple::raw
TupleRaw(tuple, columns) ==
    TupleHeaderRaw(tuple.header) \o TupleBodyRaw(tuple.body.attributes, columns, 1)

\* Tuple::raw panics
TupleRawPanics(tuple, columns) ==
    \E k \in 1..Len(columns) : AttributePanics(tuple.body.attributes, columns[k])

\* HashMap::insert
MapInsert(map, key, value) ==
    [n \in DOMAIN map \cup {key} |-> IF n = key THEN value ELSE map[n]]

\* a fill that takes all 255 payload bytes of a text, whatever its length byte
AttributeFillWhole(raw, offset, column) ==
    IF column.types = "int"
    THEN AttrInt(I32FromBeBytes(SubSeq(raw, offset + 1, offset + 4)))
    ELSE AttrText(SubSeq(raw, offset + 2, offset + 256))

\* what a fill that panicked hands back: no value
FillPanic == [tag |-> "Panic"]

\* String::from_utf8 returns Ok: the bytes are a run of well-formed UTF-8
\* sequences, each a lead byte with the continuation bytes it calls for, none
\* overlong, none a surrogate, none above U+10FFFF
IsUtf8(bytes) ==
    LET width(b) == IF b < 128 THEN 1
                    ELSE IF b \in 194..223 THEN 2
                    ELSE IF b \in 224..239 THEN 3
                    ELSE IF b \in 240..244 THEN 4
                    ELSE 0
        cont(b) == b \in 128..191
        second(lead, b) == IF lead = 224 THEN b \in 160..191
                           ELSE IF lead = 237 THEN b \in 128..159
                           ELSE IF lead = 240 THEN b \in 144..191
                           ELSE IF lead = 244 THEN b \in 128..143
                           ELSE cont(b)
    IN  \A i \in 1..Len(bytes) :
            IF cont(bytes[i])
            THEN \E j \in 1..3 :
                    /\ i - j >= 1
                    /\ width(bytes[i - j]) > j
                    /\ \A k \in 1..(j - 1) : cont(bytes[i - k])
            ELSE /\ width(bytes[i]) >= 1
                 /\ i + width(bytes[i]) - 1 <= Len(bytes)
                 /\ \A k \in 1..(width(bytes[i]) - 1) :
                       IF k = 1 THEN second(bytes[i], bytes[i + 1])
                       ELSE cont(bytes[i + k])

\* TupleBody::fill panics on the column read at the offset: a slice is out of
\* range, the bytes the length byte counts are not UTF-8 (unwrap of the Err of
\* String::from_utf8), or the type is neither int nor text
AttributeFillPanics(raw, offset, column) ==
    IF column.types = "int" THEN offset + 4 > Len(raw)
    ELSE IF column.types = "text"
    THEN \/ offset + 256 > Len(raw)
         \/ ~IsUtf8(SubSeq(raw, offset + 2, offset + 1 + raw[offset + 1]))
    ELSE TRUE

\* TupleBody::fill, the attribute of the column read at the offset
AttributeFill(raw, offset, column) ==
    IF AttributeFillPanics(raw, offset, column) THEN FillPanic
    ELSE IF column.types = "int"
    THEN AttrInt(I32FromBeBytes(SubSeq(raw, offset + 1, offset + 4)))
    ELSE AttrText(SubSeq(SubSeq(raw, offset + 2, offset + 256), 1, raw[offset + 1]))

\* TupleBody::fill, columns k..Len(columns), from the offset: the attributes
\* inserted, unless a column panics
RECURSIVE TupleBodyFill(_, _, _, _, _)
TupleBodyFill(raw, columns, k, offset, attributes) ==
    IF k > Len(columns) THEN attributes
    ELSE IF AttributeFillPanics(raw, offset, columns[k]) THEN FillPanic
    ELSE TupleBodyFill(raw, columns, k + 1,
                       offset + (IF columns[k].types = "int" THEN 4 ELSE 256),
                       MapInsert(attributes, columns[k].name,
                                 AttributeFill(raw, offset, columns[k])))

\* Tuple::fill on Tuple::default; raw[..TUPLE_HEADER_SIZE] panics on a shorter
\* slice
TupleFill(raw, columns) ==
    IF Len(raw) < TUPLE_HEADER_SIZE THEN FillPanic
    ELSE IF TupleBodyFill(SubSeq(raw, TUPLE_HEADER_SIZE + 1, Len(raw)),
                          columns, 1, 0, <<>>) = FillPanic
    THEN FillPanic
    ELSE [header |-> TupleHeaderFill(SubSeq(raw, 1, TUPLE_HEADER_SIZE)),
          body |-> [attributes |->
                       TupleBodyFill(SubSeq(raw, TUPLE_HEADER_SIZE + 1, Len(raw)),
                                     columns, 1, 0, <<>>)]]

\* Page::raw, the bytes appended for the tuples lo..hi of the body, in their
\* order (the range is split in two halves)
RECURSIVE BodyRaw(_, _, _, _)
BodyRaw(body, columns, lo, hi) ==
    IF lo > hi THEN <<>>
    ELSE IF lo = hi THEN TupleRaw(body[lo], columns)
    ELSE BodyRaw(body, columns, lo, (lo + hi) \div 2)
            \o BodyRaw(body, columns, (lo + hi) \div 2 + 1, hi)

\* Page::raw with the schema's columns: the header, the tuples, and zero bytes
\* up to PAGE_SIZE when the bytes so far are fewer
PageRawBytes(page, columns) ==
    LET b == PageHeaderRaw(page.header) \o BodyRaw(page.body, columns, 1, Len(page.body))
    IN  IF PAGE_SIZE > Len(b) THEN b \o Zeros(PAGE_SIZE - Len(b)) ELSE b

\* Page::raw panics
PageRawPanics(page, columns) ==
    \E k \in 1..Len(page.body) : TupleRawPanics(page.body[k], columns)

\* Page::fill panics in its loop: the slice of a tuple ends behind the bytes
\* given, or Tuple::fill panics on it
PageBodyFillPanics(raw, columns, tuple_count) ==
    \E k \in 1..tuple_count :
        \/ PAGE_HEADER_SIZE + k * TupleSize(columns) > Len(raw)
        \/ TupleFill(SubSeq(raw, PAGE_HEADER_SIZE + (k - 1) * TupleSize(columns) + 1,
                            PAGE_HEADER_SIZE + k * TupleSize(columns)),
                     columns) = FillPanic

\* Page::fill, the body: tuple_count tuples of tuple_size bytes from the offset
\* PAGE_HEADER_SIZE on
PageBodyFill(raw, columns, tuple_count) ==
    IF PageBodyFillPanics(raw, columns, tuple_count) THEN FillPanic
    ELSE [k \in 1..tuple_count |->
             TupleFill(SubSeq(raw, PAGE_HEADER_SIZE + (k - 1) * TupleSize(columns) + 1,
                              PAGE_HEADER_SIZE + k * TupleSize(columns)),
                       columns)]

\* Page::fill on a page of the given id, with the schema's columns:
\* assert!(raw.len() == PAGE_SIZE), the header, the body. A tuple_count of
\* 2^31 or more (first byte 128 or more) asks for more tuples than any page
\* has bytes for.
PageFillBytes(page_id, raw, columns) ==
    IF Len(raw) # PAGE_SIZE THEN FillPanic
    ELSE IF raw[1] >= 128 THEN FillPanic
    ELSE IF PageBodyFillPanics(raw, columns,
                               PageHeaderFill(SubSeq(raw, 1, PAGE_HEADER_SIZE)).tuple_count)
    THEN FillPanic
    ELSE [id |-> page_id,
          header |-> PageHeaderFill(SubSeq(raw, 1, PAGE_HEADER_SIZE)),
          body |-> PageBodyFill(raw, columns,
                                PageHeaderFill(SubSeq(raw, 1, PAGE_HEADER_SIZE)).tuple_count)]

\* the schemas a catalog is given: columns of the types int and text, the names
\* distinct
Schemas ==
    { << [types |-> "int", name |-> "i"] >>,
      << [types |-> "text", name |-> "s"] >>,
      << [types |-> "int", name |-> "i"], [types |-> "text", name |-> "s"] >>,
      << [types |-> "text", name |-> "s"], [types |-> "int", name |-> "i"] >> }

\* the i32 values rows carry: the ends of the range and values between
IntValues == {-2147483647 - 1, -1, 999, 2147483647}

\* the texts rows carry, as UTF-8 bytes: the empty text, "text", a text of two
\* two-byte characters, and a text of 255 bytes
TextValues ==
    { <<>>, <<116, 101, 120, 116>>, <<195, 169, 195, 128>>, [i \in 1..255 |-> 120] }

\* the attribute maps that give every column a value of its type
AttributesOf(columns) ==
    {a \in [{columns[k].name : k \in 1..Len(columns)}
               -> {AttrInt(v) : v \in IntValues} \cup {AttrText(v) : v \in TextValues}] :
        \A k \in 1..Len(columns) :
            a[columns[k].name].tag = IF columns[k].types = "int" THEN "Int" ELSE "Text"}

\* the tuples of a schema, with the deleted flags 0 and 1
TuplesOf(columns) ==
    {[header |-> [deleted |-> d], body |-> [attributes |-> a]] :
        d \in {0, 1}, a \in AttributesOf(columns)}

\* the number of tuples of the schema a page has room for
Capacity(columns) == (PAGE_SIZE - PAGE_HEADER_SIZE) \div TupleSize(columns)

\* the pages of a schema that went through add_tuple: no tuple, one, two, or as
\* many as the page has room for (two tuples in turn)
BodiesOf(columns) ==
    {<<>>} \cup {<<a>> : a \in TuplesOf(columns)}
           \cup {<<a, b>> : a \in TuplesOf(columns), b \in TuplesOf(columns)}
           \cup {[k \in 1..Capacity(columns) |-> IF k % 2 = 1 THEN a ELSE b] :
                    a \in TuplesOf(columns), b \in TuplesOf(columns)}

\* history of one page written and read back: the schema, the page handed to
\* DiskManager::write, the bytes of the file, and the page DiskManager::read gave
InitSerde ==
    /\ pool_size = 1
    /\ tables = {"t1"}
    /\ build = "debug"
    /\ panicked = FALSE
    /\ replacer = <<>>
    /\ descriptors = <<>>
    /\ buffer_pool = <<>>
    /\ page_table = <<>>
    /\ disk = Files([t \in Tables |-> <<>>])
    /\ frame_table = <<>>
    /\ handed = {}
    /\ tracked = TrackingOff
    /\ last = [op |-> "new", result |-> "ok"]
    /\ \E columns \in Schemas : \E body \in BodiesOf(columns) :
          hist = [kind |-> "serde", columns |-> columns,
                  page |-> [id |-> 0, header |-> [tuple_count |-> Len(body)],
                            body |-> body],
                  file |-> <<>>, read |-> PageDefault]

\* DiskManager::write of the page at the offset 0 of an empty file
WritePage ==
    /\ ~panicked
    /\ last.op = "new"
    /\ IF PageRawPanics(hist.page, hist.columns)
       THEN /\ panicked' = TRUE
            /\ last' = [op |-> "write", result |-> "panic"]
            /\ UNCHANGED hist
       ELSE /\ hist' = [hist EXCEPT !.file = PageRawBytes(hist.page, hist.columns)]
            /\ last' = [op |-> "write", result |-> "ok"]
            /\ UNCHANGED panicked
    /\ UNCHANGED <<pool_size, tables, build, replacer, descriptors, buffer_pool,
                   page_table, disk, frame_table, handed, tracked>>

\* DiskManager::read of page 0: read_exact of PAGE_SIZE bytes, then Page::fill,
\* whose panic ends the process
ReadPage ==
    /\ ~panicked
    /\ last.op = "write"
    /\ IF Len(hist.file) < PAGE_SIZE
       THEN /\ last' = [op |-> "read", result |-> "read_error"]
            /\ UNCHANGED <<hist, panicked>>
       ELSE IF PageFillBytes(0, SubSeq(hist.file, 1, PAGE_SIZE), hist.columns)
                 = FillPanic
       THEN /\ panicked' = TRUE
            /\ last' = [op |-> "read", result |-> "panic"]
            /\ UNCHANGED hist
       ELSE /\ hist' = [hist EXCEPT
                          !.read = PageFillBytes(0, SubSeq(hist.file, 1, PAGE_SIZE),
                                                 hist.columns)]
            /\ last' = [op |-> "read", result |-> "ok"]
            /\ UNCHANGED panicked
    /\ UNCHANGED <<pool_size, tables, build, replacer, descriptors,
                   buffer_pool, page_table, disk, frame_table, handed, tracked>>

NextSerde ==
    \/ WritePage
    \/ ReadPage

SpecSerde == InitSerde /\ [][NextSerde]_vars

\* ------------------------------------------------- one text attribute
\* the longest text handed to the encoder, one byte more than a field holds
MaxTextLen == 256

\* the schema of one text column
TextColumns == << [types |-> "text", name |-> "s"] >>

\* the Strings of a given byte length: NUL characters only, the letter x
\* only, letters that differ from place to place, and characters of two,
\* three and four bytes (U+00E9, U+20AC, U+1F600) behind as many letters a as
\* the length leaves over
TextsOfLen(n) ==
    { [i \in 1..n |-> 0], [i \in 1..n |-> 120], [i \in 1..n |-> 97 + (i % 26)] }
    \cup { [i \in 1..n |-> IF i <= n % Len(c) THEN 97
                             ELSE c[((i - (n % Len(c)) - 1) % Len(c)) + 1]] :
              c \in { <<195, 169>>, <<226, 130, 172>>, <<240, 159, 152, 128>> } }

\* history of one text attribute encoded and decoded: the text handed to
\* TupleBody::raw, the bytes it returned, and the attributes TupleBody::fill
\* read from them
InitText ==
    /\ pool_size = 1
    /\ tables = {"t1"}
    /\ build \in {"debug", "release"}
    /\ panicked = FALSE
    /\ replacer = <<>>
    /\ descriptors = <<>>
    /\ buffer_pool = <<>>
    /\ page_table = <<>>
    /\ disk = Files([t \in Tables |-> <<>>])
    /\ frame_table = <<>>
    /\ handed = {}
    /\ tracked = TrackingOff
    /\ last = [op |-> "new", result |-> "ok"]
    /\ \E n \in 0..MaxTextLen : \E text \in TextsOfLen(n) :
          hist = [kind |-> "text", text |-> text, raw |-> <<>>, read |-> <<>>]

\* TupleBody::raw of the attributes {s: Text(text)}. A text longer than 255
\* bytes panics in either build: 255 - len overflows, which the debug build
\* reports and the release build wraps to a length vec! cannot allocate
\* (capacity overflow); the bytes pushed so far are dropped with the panic.
RawText ==
    /\ ~panicked
    /\ last.op = "new"
    /\ IF AttributePanics([s |-> AttrText(hist.text)], TextColumns[1])
       THEN /\ panicked' = TRUE
            /\ last' = [op |-> "raw", result |-> "panic"]
            /\ UNCHANGED hist
       ELSE /\ hist' = [hist EXCEPT
                          !.raw = TupleBodyRaw([s |-> AttrText(hist.text)],
                                               TextColumns, 1)]
            /\ last' = [op |-> "raw", result |-> "ok"]
            /\ UNCHANGED panicked
    /\ UNCHANGED <<pool_size, tables, build, replacer, descriptors, buffer_pool,
                   page_table, disk, frame_table, handed, tracked>>

\* TupleBody::fill of the bytes raw returned, on an empty attribute map; its
\* panic ends the process
FillText ==
    /\ ~panicked
    /\ last.op = "raw"
    /\ IF TupleBodyFill(hist.raw, TextColumns, 1, 0, <<>>) = FillPanic
       THEN /\ panicked' = TRUE
            /\ last' = [op |-> "fill", result |-> "panic"]
            /\ UNCHANGED hist
       ELSE /\ hist' = [hist EXCEPT
                          !.read = TupleBodyFill(hist.raw, TextColumns, 1, 0, <<>>)]
            /\ last' = [op |-> "fill", result |-> "ok"]
            /\ UNCHANGED panicked
    /\ UNCHANGED <<pool_size, tables, build, replacer, descriptors,
                   buffer_pool, page_table, disk, frame_table, handed, tracked>>

NextText ==
    \/ RawText
    \/ FillText

SpecText == InitText /\ [][NextText]_vars

\* ------------------------------------------------------------- vocabulary
\* the id is present in the replacer
InReplacer(d) == \E i \in 1..Len(replacer) : replacer[i] = d

\* the <<key, value>> pairs of all buckets of the page table
Entries == UNION {page_table[i] : i \in 1..Len(page_table)}

\* frame f holds page p_id of the table: the last page put into it was read
\* from that table under that id
Holds(f, p_id, table_name) ==
    frame_table[f] = table_name /\ buffer_pool[f].page.id = p_id

\* the step is a fetch_buffer or new_buffer that went through the load
LoadStep ==
    /\ last'.op \in {"new_buffer", "fetch_buffer"}
    /\ last'.result \notin {"hit", "allocate_error"}

\* the step is a load that took a victim from the replacer
VictimStep == LoadStep /\ last'.result # "no_victim"

\* the effect named kind comes before every effect named in kinds
Before(io, kind, kinds) ==
    \A i, j \in 1..Len(io) : io[i][1] = kind /\ io[j][1] \in kinds => i < j

\* --------------------------------------------------------------- claims
\* C1: the frame a miss load chooses as victim has pin_count = 0 at the moment
\* it is chosen; a pinned frame is never evicted or rebound.
C1_VictimHasNoPin ==
    [][VictimStep => descriptors[ReplacerVictim(replacer)].pin_count = 0]_vars

\* C2: at every operation boundary a descriptor id is present in the replacer
\* if and only if its pin_count is 0.
C2_ReplacerIffUnpinned ==
    \A d \in Frames : InReplacer(d) <=> descriptors[d].pin_count = 0

\* C3: the page table holds exactly one entry for every page a frame holds and
\* no entry for any other page; loading a page into a never-used frame removes
\* no entry of another resident page.
C3_PageTableExact ==
    /\ \A f \in Frames :
          frame_table[f] # NoTable
            => <<Key(buffer_pool[f].page.id, frame_table[f]), f>> \in Entries
    /\ \A e \in Entries : Holds(e[2], e[1].page_id, e[1].table_name)
    /\ \A e1, e2 \in Entries : e1[1] = e2[1] => e1 = e2

\* C4: a page fetched, mutated, marked dirty, unpinned and evicted by a later
\* load is fetched again with the tuple_count and tuples it had at the unpin.
C4_RefetchYieldsMutated ==
    [][\A p \in PageIds, t \in tables :
          ( /\ FetchBuffer(p, t)
            /\ last'.result \in {"ok", "hit"}
            /\ tracked.phase = "evicted" /\ tracked.page.body # <<>>
            /\ tracked.table_name = t /\ tracked.page_id = p )
          => LET f == TableGet(page_table', Key(p, t))
             IN  /\ buffer_pool'[f].page.header = tracked.page.header
                 /\ buffer_pool'[f].page.body = tracked.page.body]_vars

\* C5: when a load evicts a dirty frame, the victim's page is written before
\* the page table is remapped and before the frame is refilled, and the page
\* the frame held is on disk when the load is over.
C5_DirtyVictimOnDisk ==
    [][\A p \in PageIds, t \in tables :
          LET v == ReplacerVictim(replacer)
              r == IF last'.op = "new_buffer" THEN NewLoad(t) ELSE FetchLoad(p, t)
          IN  ( /\ VictimStep
                /\ NewBuffer(t) \/ FetchBuffer(p, t)
                /\ descriptors[v].dirty /\ frame_table[v] # NoTable )
              => /\ \E i \in 1..Len(r.io) : r.io[i][1] = "write"
                 /\ Before(r.io, "write", {"remove", "put", "buffer_put"})
                 /\ buffer_pool[v].page.id < Len(disk'[frame_table[v]])
                 /\ disk'[frame_table[v]][buffer_pool[v].page.id + 1]
                      = PageRaw(buffer_pool[v].page)]_vars

\* C6: a dirty victim holding page P of T_old, evicted by a load for another
\* table T_new, is written to T_old's file at page P, the key removed is
\* (T_old, P), and nothing is written to T_new's file.
C6_VictimWrittenToOwnTable ==
    [][\A p \in PageIds, t \in tables :
          LET v == ReplacerVictim(replacer)
              r == IF last'.op = "new_buffer" THEN NewLoad(t) ELSE FetchLoad(p, t)
              old == frame_table[v]
              P == buffer_pool[v].page.id
          IN  ( /\ VictimStep
                /\ NewBuffer(t) \/ FetchBuffer(p, t)
                /\ descriptors[v].dirty /\ old \notin {NoTable, t} )
              => /\ P < Len(disk'[old])
                 /\ disk'[old][P + 1] = PageRaw(buffer_pool[v].page)
                 /\ TableGet(page_table', Key(P, old)) = NoFrame
                 /\ \A i \in 1..Len(r.io) : r.io[i][1] = "write" => r.io[i][2] = old]_vars

\* C7: a frame id is the value of at most one page-table key.
C7_FrameUnderOneKey ==
    \A f \in Frames : Cardinality({e \in Entries : e[2] = f}) <= 1

\* C8: at every operation boundary, also after a fetch_buffer that returned an
\* error, every page-table entry (table, P) -> F has frame F holding page P of
\* that table.
C8_EntryMatchesFrame ==
    \A e \in Entries : Holds(e[2], e[1].page_id, e[1].table_name)

\* C9: when no frame is pinned (every fetch and new so far was matched by an
\* unpin), flush_buffer(P, T) on a resident page leaves at page P of T's file
\* the content of the frame holding P: of every frame a load has filled that
\* holds page P of T or that the page table gives for (P, T).
C9_FlushedImageEqualsFrame ==
    [][\A p \in PageIds, t \in tables, f \in Frames :
          ( /\ FlushBuffer(p, t)
            /\ \A g \in Frames : descriptors[g].pin_count = 0
            /\ frame_table[f] # NoTable
            /\ Holds(f, p, t) \/ TableGet(page_table, Key(p, t)) = f )
          => /\ DiskReadOk(disk', p, t)
             /\ DiskRead(disk', p, t) = buffer_pool[f].page]_vars

\* C10: a miss load fails with the no-victim error if and only if every frame
\* has pin_count > 0 at the time of the call.
C10_NoVictimIffAllPinned ==
    [][LoadStep => (last'.result = "no_victim"
                      <=> \A f \in Frames : descriptors[f].pin_count # 0)]_vars

\* C11: when fetch_buffer or new_buffer returns an error (no victim, the write
\* of the victim failed, the read of the page failed, the allocation of the
\* page failed), every descriptor has the
\* pin_count it had before the call.
C11_ErrorKeepsPinCounts ==
    [][(/\ last'.op \in {"new_buffer", "fetch_buffer"}
        /\ last'.result \in {"no_victim", "write_error", "read_error",
                              "allocate_error"})
          => \A f \in Frames :
                descriptors'[f].pin_count = descriptors[f].pin_count]_vars

\* C12: when the write of a dirty victim fails the load reports the failure,
\* the victim is still dirty, the page table and the frame are as before, and
\* the frame can be hit and chosen as a victim again: its id is in the
\* replacer, or some key of the page table maps to it, so that a fetch_buffer
\* can hit it and the unpin_buffer after the hit puts the id back.
C12_WriteFailureKeepsFrame ==
    [][(last'.result = "write_error" /\ frame_table[ReplacerVictim(replacer)] # NoTable)
          => LET v == ReplacerVictim(replacer)
             IN  /\ descriptors'[v].dirty
                 /\ page_table' = page_table
                 /\ buffer_pool' = buffer_pool
                 /\ \/ \E i \in 1..Len(replacer') : replacer'[i] = v
                    \/ \E i \in 1..Len(page_table') :
                          \E e \in page_table'[i] : e[2] = v]_vars

\* C13: when the read of the requested page fails the page table is what it was
\* before the call and no descriptor's dirty bit has changed.
C13_ReadFailureKeepsState ==
    [][(LoadStep /\ last'.result = "read_error")
          => /\ page_table' = page_table
             /\ \A f \in Frames : descriptors'[f].dirty = descriptors[f].dirty]_vars

\* C14: fetch_buffer of a page that is in the page table returns the frame the
\* page table maps it to, adds exactly one to that descriptor's pin_count, reads
\* and writes no file, and leaves the page table, the frames, every dirty bit
\* and every other descriptor's pin_count unchanged.
C14_HitPinsOnly ==
    [][\A p \in PageIds, t \in tables :
          (FetchBuffer(p, t) /\ FetchHit(p, t))
          => LET f == TableGet(page_table, Key(p, t))
             IN  /\ last'.result = "hit"
                 /\ FetchHitFrame(p, t) = f
                 /\ descriptors'[f].pin_count = descriptors[f].pin_count + 1
                 /\ \A g \in Frames :
                       /\ descriptors'[g].dirty = descriptors[g].dirty
                       /\ g # f => descriptors'[g].pin_count = descriptors[g].pin_count
                 /\ disk' = disk
                 /\ page_table' = page_table
                 /\ buffer_pool' = buffer_pool]_vars

\* C14 witness: a cache hit has just pinned a frame that was already pinned.
C14_Witness ==
    /\ last = [op |-> "fetch_buffer", result |-> "hit"]
    /\ \E f \in Frames : descriptors[f].pin_count = 2 /\ frame_table[f] # NoTable

\* C15: unpin_buffer on a mapped page whose descriptor has pin_count = 0 is a
\* fatal error that leaves the descriptors alone, and no pin_count is ever
\* outside the counts matched pins reach (it never wraps around to usize::MAX).
C15_UnderflowIsFatal ==
    [][/\ \A p \in PageIds, t \in tables :
             ( /\ UnpinBuffer(p, t)
               /\ FetchHit(p, t)
               /\ descriptors[TableGet(page_table, Key(p, t))].pin_count = 0 )
             => panicked' /\ descriptors' = descriptors
       /\ \A f \in Frames : descriptors'[f].pin_count >= 0]_vars

\* C18: constructing the manager, or any of its parts, with pool_size = 0 is
\* rejected; a manager that exists has at least one frame, and as many
\* descriptors, buckets and frames as its pool_size.
C18_ZeroPoolRejected ==
    /\ pool_size = 0
         => /\ panicked
            /\ ~LruReplacerNew(pool_size).ok
            /\ ~DescriptorsNew(pool_size).ok
            /\ ~BufferPoolNew(pool_size).ok
            /\ ~HashTableNew(pool_size).ok
    /\ last.op = "new" /\ ~panicked
         => /\ pool_size > 0
            /\ DOMAIN descriptors = Frames /\ DOMAIN buffer_pool = Frames
            /\ Len(page_table) = pool_size /\ Len(replacer) = pool_size

\* C18 witness: a construction with pool_size = 0 has panicked.
C18_Witness == pool_size = 0 /\ last = [op |-> "new", result |-> "panic"]

\* C19: on a fresh manager of pool_size n, each of the first n miss loads of
\* distinct existing pages (no unpin in between) succeeds and binds a frame
\* no load has used, and then every page loaded so far is pinned and the page
\* table maps it to its frame.
C19_FirstLoadsNeverStall ==
    [][(LoadStep /\ replacer # <<>>)
          => /\ last'.result = "ok"
             /\ frame_table[ReplacerVictim(replacer)] = NoTable
             /\ \A f \in Frames :
                   frame_table'[f] # NoTable
                     => /\ descriptors'[f].pin_count = 1
                        /\ TableGet(page_table',
                                    Key(buffer_pool'[f].page.id, frame_table'[f])) = f]_vars

\* C20: victim() removes and returns the present id whose most recent unpin is
\* the oldest, and nothing on an empty replacer; unpin of a present id moves
\* it to the most-recently-used end without duplicating it; pin removes the id.
\* After every call the replacer holds exactly the present ids, each once, in
\* the order of their most recent unpin.
C20_ReplacerIsLru ==
    [][/\ last'.op = "victim"
          => /\ last'.result = StampOldest(hist)
             /\ \A i \in 1..Len(replacer') : replacer'[i] # last'.result
             /\ replacer = <<>> => last'.result = NoFrame
       /\ \A id \in ReplacerIds :
             /\ (last'.op = "pin" /\ CallPin(id))
                  => \A i \in 1..Len(replacer') : replacer'[i] # id
             /\ (last'.op = "unpin" /\ CallUnpin(id))
                  => replacer'[Len(replacer')] = id
       /\ \A id \in ReplacerIds :
             (\E i \in 1..Len(replacer') : replacer'[i] = id) <=> hist'.stamp[id] > 0
       /\ \A i, j \in 1..Len(replacer') :
             i < j => hist'.stamp[replacer'[i]] < hist'.stamp[replacer'[j]]]_vars

\* C20 witness: a victim call has just returned an id and left another one
\* present, after more unpin calls than the replacer held ids.
C20_Witness ==
    /\ last.op = "victim" /\ last.result # NoFrame
    /\ hist.kind = "replacer" /\ hist.clock > Len(replacer) + 1
    /\ replacer # <<>>

\* C16: after flush_all, for every dirty descriptor the image of the page its
\* frame holds, in the file of that page's table, decodes to the frame's
\* content; the frames selected for writing are exactly the frames whose
\* descriptor is dirty; no dirty bit is cleared.
C16_FlushAllWritesDirty ==
    [][last'.op = "flush_all"
          => /\ DirtyBuffers = {f \in Frames : descriptors[f].dirty}
             /\ descriptors' = descriptors
             /\ \A f \in DirtyBuffers :
                   frame_table[f] # NoTable
                     => /\ DiskReadOk(disk', buffer_pool[f].page.id, frame_table[f])
                        /\ DiskRead(disk', buffer_pool[f].page.id, frame_table[f])
                             = buffer_pool[f].page]_vars

\* C17: a scan of a table returns every row inserted into it, in the order of
\* the inserts, also when the inserts span several pages and force evictions.
C17_ScanReturnsInserts ==
    last.op = "scan"
      => /\ last.result = "ok"
         /\ hist.records = hist.inserted[hist.table_name]

\* C21: allocate_page of a table returns the number of pages of its file (0 on
\* an empty file, then 1, 2, ... with no gap and no repeat), after it
\* last_page_id is the id returned and the file is id + 1 pages long; a file
\* grows only by an allocate_page of its table, one page at a time, so that
\* last_page_id is absent exactly when no page was allocated.
C21_AllocateCountsPages ==
    [][\A t \in Tables :
          /\ NewBuffer(t)
               => LET id == AllocatePageId(disk, t)
                      files == AllocatePage(disk, t)
                  IN  /\ id = LastPageId(disk, t) + 1
                      /\ LastPageId(files, t) = id
                      /\ Len(files[t]) = id + 1
          /\ Len(disk'[t]) # Len(disk[t])
               => /\ last'.op = "new_buffer"
                  /\ Len(disk'[t]) = Len(disk[t]) + 1]_vars

\* C22: at every operation boundary, also after a fetch_buffer of a page the
\* file does not have, every key (T, P) of the page table has
\* 0 <= P <= last_page_id(T), and the file of every table is
\* last_page_id(T) + 1 pages long.
C22_KeysWithinFile ==
    /\ \A e \in Entries :
          /\ 0 <= e[1].page_id
          /\ e[1].page_id <= LastPageId(disk, e[1].table_name)
    /\ \A t \in Tables : Len(disk[t]) = LastPageId(disk, t) + 1

\* C23: a page of a schema whose tuples fit in one page, written and read back,
\* has the tuple_count, the tuples in their order, each tuple's deleted flag and
\* every attribute value it was written with; the image is PAGE_SIZE bytes and
\* encoding the page read gives the same image again.
C23_PageRoundTrip ==
    last.op = "read"
      => /\ last.result = "ok"
         /\ Len(hist.file) = PAGE_SIZE
         /\ hist.read.header.tuple_count = hist.page.header.tuple_count
         /\ Len(hist.read.body) = Len(hist.page.body)
         /\ \A k \in 1..Len(hist.page.body) :
               /\ hist.read.body[k].header.deleted = hist.page.body[k].header.deleted
               /\ hist.read.body[k].body.attributes = hist.page.body[k].body.attributes
         /\ PageRawBytes(hist.read, hist.columns) = hist.file

\* C23 witness: a page filled to its capacity with tuples that differ, one of
\* them deleted and one carrying a text of 255 bytes, has been read back.
C23_Witness ==
    /\ last = [op |-> "read", result |-> "ok"]
    /\ Len(hist.page.body) = Capacity(hist.columns)
    /\ hist.read.body[1] # hist.read.body[2]
    /\ \E k \in 1..2 :
          /\ hist.read.body[k].header.deleted = 1
          /\ "s" \in DOMAIN hist.read.body[k].body.attributes
          /\ Len(hist.read.body[k].body.attributes["s"].text) = 255

\* C24: the insert that fills a page allocates no further page; the insert
\* after it allocates exactly one page and puts its tuple there, and the tuples
\* of the full page stay what they were. With n rows in the table before the
\* insert, the file has n \div TuplesPerPage + 1 pages after it, a fetch_buffer
\* of the last page then returns a buffer whose last tuple is the row, and a
\* fetch_buffer of any page before returns a buffer with the rows of that page.
C24_FullPageThenOneNewPage ==
    [][\A t \in Tables :
          (Insert(t) /\ last'.result = "ok")
          => LET n == Len(hist.inserted[t])
                 p == n \div TuplesPerPage
                 b == MgrFetchBuffer(Mgr', p, t)
             IN  /\ Len(disk'[t]) = p + 1
                 /\ b.result \in {"ok", "hit"}
                 /\ b.m.buffer_pool[b.frame].page.body
                      = SubSeq(hist'.inserted[t], p * TuplesPerPage + 1, n + 1)
                 /\ \A q \in 0..(p - 1) :
                       LET c == MgrFetchBuffer(Mgr', q, t)
                       IN  /\ c.result \in {"ok", "hit"}
                           /\ c.m.buffer_pool[c.frame].page.body
                                = SubSeq(hist.inserted[t], q * TuplesPerPage + 1,
                                         (q + 1) * TuplesPerPage)]_vars

\* C25: among the frames a page was loaded into, no two hold the same page of
\* the same table.
C25_OneFramePerPage ==
    \A f, g \in Frames :
        (f # g /\ frame_table[f] # NoTable /\ frame_table[g] # NoTable)
          => ~Holds(g, buffer_pool[f].page.id, frame_table[f])

\* C26: after an insert has returned, the frame whose page received the row
\* has a dirty descriptor.
C26_InsertMarksDirty ==
    [][\A t \in Tables :
          (Insert(t) /\ last'.result = "ok")
          => \E f \in Frames :
                /\ buffer_pool'[f].page.body # <<>>
                /\ buffer_pool'[f].page.body[Len(buffer_pool'[f].page.body)] = hist'.count
                /\ descriptors'[f].dirty]_vars

\* what C27 asks of the state after a successful miss load of page p of table t
\* that took the victim v
LoadedInto(v, p, t) ==
    /\ buffer_pool'[v].id = v
    /\ DiskReadOk(disk', p, t)
    /\ buffer_pool'[v].page = DiskRead(disk', p, t)
    /\ descriptors'[v].pin_count = 1
    /\ ~descriptors'[v].dirty
    /\ TableGet(page_table', Key(p, t)) = v
    /\ \A i \in 1..Len(replacer') : replacer'[i] # v

\* C27: a successful miss load of (T, P) leaves the victim's frame holding page
\* P of T as it is in the file, pin_count 1, dirty false, the page table
\* mapping (T, P) to the frame and the victim out of the replacer; the page of
\* new_buffer is empty and its id is the previous last page id plus one, or 0.
C27_MissLoadBindsVictim ==
    [][\A t \in Tables :
          /\ \A p \in PageIds :
                (FetchBuffer(p, t) /\ ~FetchHit(p, t) /\ last'.result = "ok")
                  => LoadedInto(ReplacerVictim(replacer), p, t)
          /\ (NewBuffer(t) /\ last'.result = "ok")
                => /\ LoadedInto(ReplacerVictim(replacer), LastPageId(disk, t) + 1, t)
                   /\ buffer_pool'[ReplacerVictim(replacer)].page.body = <<>>
                   /\ buffer_pool'[ReplacerVictim(replacer)].page.header.tuple_count = 0]_vars

\* C28: every unpin_buffer of a page the page table maps lowers the pin_count
\* of its descriptor by one; the id goes to the most-recently-used end of the
\* replacer exactly when the count reaches zero, and while the count is above
\* zero (fewer unpins than fetches) the id is not in the replacer.
C28_UnpinsMatchFetches ==
    [][\A p \in PageIds, t \in Tables :
          (UnpinBuffer(p, t) /\ FetchHit(p, t) /\ last'.result = "ok")
          => LET d == TableGet(page_table, Key(p, t))
             IN  /\ descriptors'[d].pin_count = descriptors[d].pin_count - 1
                 /\ descriptors'[d].pin_count = 0
                      => /\ replacer' # <<>>
                         /\ replacer'[Len(replacer')] = d
                         /\ Cardinality({i \in 1..Len(replacer') : replacer'[i] = d}) = 1
                 /\ descriptors'[d].pin_count # 0
                      => /\ replacer' = replacer
                         /\ \A i \in 1..Len(replacer') : replacer'[i] # d]_vars

\* C29: flush_buffer leaves every pin_count and dirty bit, the replacer, the
\* page table and the frames as they were, and writes nothing when the page
\* table does not map the page.
C29_FlushKeepsMemory ==
    [][\A p \in PageIds, t \in Tables :
          FlushBuffer(p, t)
          => /\ descriptors' = descriptors
             /\ replacer' = replacer
             /\ page_table' = page_table
             /\ buffer_pool' = buffer_pool
             /\ ~FetchHit(p, t) => disk' = disk]_vars

\* C29 witness: a flush_buffer has just written the page of a frame that is
\* dirty and pinned and holds a tuple, while another id waits in the replacer.
C29_Witness ==
    /\ last = [op |-> "flush_buffer", result |-> "ok"]
    /\ replacer # <<>>
    /\ \E p \in PageIds, t \in tables :
          LET d == TableGet(page_table, Key(p, t))
          IN  /\ d # NoFrame
              /\ Holds(d, p, t)
              /\ descriptors[d].dirty /\ descriptors[d].pin_count > 0
              /\ buffer_pool[d].page.body # <<>>
              /\ DiskReadOk(disk, p, t)
              /\ DiskRead(disk, p, t) = buffer_pool[d].page

\* C30: mark_dirty(frame_id) sets the dirty bit of descriptor[frame_id] and
\* changes nothing else (no pin_count, not the replacer, the page table, the
\* frames or the files); on a descriptor that is dirty already it changes
\* nothing at all; and a dirty bit that is set is cleared only by a load that
\* rebinds the frame: the load took the descriptor as its victim and put the
\* page it read into the frame.
C30_MarkDirtySetsOnlyDirty ==
    [][/\ \A b \in Frames :
             MarkDirty(b)
             => /\ descriptors' = [descriptors EXCEPT ![b].dirty = TRUE]
                /\ descriptors[b].dirty => descriptors' = descriptors
                /\ replacer' = replacer
                /\ page_table' = page_table
                /\ buffer_pool' = buffer_pool
                /\ disk' = disk
       /\ \A f \in Frames :
             (descriptors[f].dirty /\ ~descriptors'[f].dirty)
             => /\ VictimStep /\ ReplacerVictim(replacer) = f
                /\ last'.result = "ok"]_vars

\* C31: in every state of the manager the replacer holds at most pool_size
\* ids, each once and each the id of a descriptor, and no step drops an id
\* from the replacer other than the one a load takes as its victim: an unpin
\* never pushes another unpinned id out.
C31_ReplacerWithinCapacity ==
    [][/\ Len(replacer') <= pool_size
       /\ \A i \in 1..Len(replacer') : replacer'[i] \in Frames
       /\ \A i, j \in 1..Len(replacer') : replacer'[i] = replacer'[j] => i = j
       /\ \A i \in 1..Len(replacer) :
             (\A j \in 1..Len(replacer') : replacer'[j] # replacer[i])
               => VictimStep /\ i = 1]_vars

\* C31 witness: an unpin_buffer has just put an id behind another one in a
\* replacer that is full.
C31_Witness ==
    /\ last = [op |-> "unpin_buffer", result |-> "ok"]
    /\ pool_size = 2
    /\ replacer = <<1, 0>>

\* C32: a new_buffer that fails leaves the file of the table as long as it
\* was, with the same last_page_id, and leaves the page table, every
\* pin_count and the replacer as they were.
C32_FailedNewBufferNoEffect ==
    [][\A t \in Tables :
          (NewBuffer(t) /\ last'.result # "ok")
          => /\ Len(disk'[t]) = Len(disk[t])
             /\ LastPageId(disk', t) = LastPageId(disk, t)
             /\ page_table' = page_table
             /\ replacer' = replacer
             /\ \A f \in Frames :
                   descriptors'[f].pin_count = descriptors[f].pin_count]_vars

\* the bucket write locks load_page_from_storage_to_buffer_pool takes to
\* remap the page table, in the order it takes them: the bucket of the
\* victim key alone when both keys share it, else the victim key's bucket
\* (old_bucket) and then the target key's (new_bucket)
BucketLocks(victim_key, target_key, size) ==
    IF SameBucket(victim_key, target_key, size)
    THEN << CalculateBucket(victim_key, size) >>
    ELSE << CalculateBucket(victim_key, size), CalculateBucket(target_key, size) >>

\* the bucket locks a miss load of (p_id, table_name) takes in the current
\* state, none when the replacer has no victim
LoadLocks(p_id, table_name) ==
    IF ReplacerVictim(replacer) = NoFrame THEN <<>>
    ELSE BucketLocks(
             Key(buffer_pool[descriptors[ReplacerVictim(replacer)].buffer_pool_id].page.id,
                 table_name),
             Key(p_id, table_name), Len(page_table))

\* C33: a miss load that must update two buckets of the page table takes
\* their write locks in ascending bucket index order, whichever of the two
\* holds the victim key.
C33_BucketLocksAscending ==
    [][\A t \in Tables :
          /\ NewBuffer(t) =>
                \A i, j \in 1..Len(LoadLocks(AllocatePageId(disk, t), t)) :
                    i < j => LoadLocks(AllocatePageId(disk, t), t)[i]
                               < LoadLocks(AllocatePageId(disk, t), t)[j]
          /\ \A p \in PageIds :
                (FetchBuffer(p, t) /\ ~FetchHit(p, t)) =>
                    \A i, j \in 1..Len(LoadLocks(p, t)) :
                        i < j => LoadLocks(p, t)[i] < LoadLocks(p, t)[j]]_vars

\* C34: when an insert or a scan of the executor returns Ok, every descriptor
\* has pin_count 0: each buffer the executor was handed is unpinned once.
C34_ExecutorLeavesNothingPinned ==
    [][(last'.op \in {"insert", "scan"} /\ last'.result = "ok")
          => \A f \in Frames : descriptors'[f].pin_count = 0]_vars

\* C35: a text of L <= 255 bytes is encoded as the length byte L, its L bytes
\* and 255 - L zero bytes, 256 bytes in all, and decodes to the same text; a
\* text of 256 bytes is rejected (the encoder panics) and no bytes come out of
\* it, neither with a wrapped length byte nor of another width.
C35_TextRoundTrip ==
    /\ (last.op \in {"raw", "fill"} /\ Len(hist.text) <= 255)
          => /\ last.result = "ok"
             /\ Len(hist.raw) = 256
             /\ hist.raw[1] = Len(hist.text)
             /\ SubSeq(hist.raw, 2, Len(hist.text) + 1) = hist.text
             /\ \A i \in (Len(hist.text) + 2)..256 : hist.raw[i] = 0
    /\ last.op = "fill"
          => /\ DOMAIN hist.read = {"s"}
             /\ hist.read["s"] = AttrText(hist.text)
    /\ (last.op # "new" /\ Len(hist.text) > 255)
          => /\ last = [op |-> "raw", result |-> "panic"]
             /\ panicked
             /\ hist.raw = <<>>

\* C35 witness: a text of 255 bytes that holds characters of more than one
\* byte has been encoded and decoded.
C35_Witness ==
    /\ last = [op |-> "fill", result |-> "ok"]
    /\ Len(hist.text) = 255
    /\ \E i \in 1..255 : hist.text[i] >= 128
    /\ hist.read["s"].text = hist.text

====
